---- MODULE Spec2Model ----
(***************************************************************************)
(* Homework helper: three tables (HomeworkRequests, HomeworkResponses,     *)
(* HomeworkJobs) and the eight action handlers over them.  Every handler   *)
(* invocation runs in a slot of `proc`; each awaited database call of a    *)
(* handler is one step, so that handlers of different slots interleave at  *)
(* exactly the points where the code awaits the database.                  *)
(***************************************************************************)
EXTENDS Integers, Sequences, FiniteSets, TLC

\* ------------------------------------------------------------------ bounds
MaxRequests == 1
MaxResponses == 1
MaxJobs == 1
MaxCrossRequests == 2
MaxCrossResponses == 2
MaxStatusRequests == 2
MaxStatusResponses == 2
MaxFrameRequests == 1
MaxFrameResponses == 1
MaxFrameJobs == 1
MaxFieldRequests == 1
MaxFieldResponses == 1
MaxClock == 1
MaxConcRequests == 1
MaxConcResponses == 1

\* ------------------------------------------------------------------ values
Users == {"u1", "u2"}
NoUser == "anonymous"
Contexts == Users \cup {NoUser}
Procs == {1, 2}

\* An optional input field / nullable column: <<>> is undefined (NULL), <<v>> is v.
None == <<>>
Some(v) == <<v>>
IsSome(o) == o # <<>>
Val(o) == o[1]

RequestStatus == {"open", "answered", "closed"}

VARIABLES HomeworkRequests, HomeworkResponses, HomeworkJobs, now, proc

tables == <<HomeworkRequests, HomeworkResponses, HomeworkJobs>>
vars == <<HomeworkRequests, HomeworkResponses, HomeworkJobs, now, proc>>

Rows(table) == {table[i] : i \in DOMAIN table}

\* ------------------------------------------------------------------ guards
\* A mutant of requireUser: the missing user is let through.
requireUserLenient(context) == [code |-> "OK", user |-> context.user]

requireUser(context) ==
  IF context.user = NoUser
    THEN [code |-> "UNAUTHORIZED", user |-> NoUser]
    ELSE [code |-> "OK", user |-> context.user]

\* A mutant of getOwnedRequest: the row is looked up by id alone.
getOwnedRequestAnyUser(requestId, userId) ==
  LET found == {r \in Rows(HomeworkRequests) : r.id = requestId}
  IN  IF found = {} THEN [code |-> "NOT_FOUND", rows |-> {}]
                    ELSE [code |-> "OK", rows |-> found]

getOwnedRequest(requestId, userId) ==
  LET found == {r \in Rows(HomeworkRequests) :
                  r.id = requestId /\ r.userId = userId}
  IN  IF found = {} THEN [code |-> "NOT_FOUND", rows |-> {}]
                    ELSE [code |-> "OK", rows |-> found]

\* The .refine() of the two update schemas: at least one field is supplied.
refineUpdateRequest(input) ==
  \/ IsSome(input.subject) \/ IsSome(input.gradeLevel) \/ IsSome(input.topic)
  \/ IsSome(input.title) \/ IsSome(input.questionText)
  \/ IsSome(input.attachments) \/ IsSome(input.status)

refineUpdateResponse(input) ==
  IsSome(input.isAccepted) \/ IsSome(input.rating) \/ IsSome(input.feedback)

Validate(op, input) ==
  CASE op = "updateHomeworkRequest" -> refineUpdateRequest(input)
    [] op = "updateHomeworkResponse" -> refineUpdateResponse(input)
    [] OTHER -> TRUE

\* ------------------------------------------------------------------ slots
Idle == [pc |-> "idle", op |-> "", user |-> NoUser, input |-> <<>>,
         code |-> "", out |-> {}, others |-> {}, dirty |-> FALSE]

InFlight(p) == proc[p].pc \notin {"idle", "done"}

\* A mutant of FirstStep: createHomeworkJob skips the ownership check.
FirstStepJobUnchecked(op, input) ==
  CASE op = "createHomeworkRequest" -> "insert"
    [] op = "listHomeworkRequests" -> "select"
    [] op = "createHomeworkJob" -> "insert"
    [] op = "listHomeworkJobs" -> "select"
    [] OTHER -> "owned"

\* The first awaited step of each handler, after requireUser.
FirstStep(op, input) ==
  CASE op = "createHomeworkRequest" -> "insert"
    [] op = "updateHomeworkRequest" -> "owned"
    [] op = "listHomeworkRequests" -> "select"
    [] op = "addHomeworkResponse" -> "owned"
    [] op = "updateHomeworkResponse" -> "owned"
    [] op = "listHomeworkResponses" -> "owned"
    [] op = "createHomeworkJob" ->
         IF IsSome(input.requestId) THEN "owned" ELSE "insert"
    [] op = "listHomeworkJobs" -> "select"

\* The step that follows a successful getOwnedRequest.
AfterOwned(op) ==
  CASE op = "updateHomeworkRequest" -> "update"
    [] op = "addHomeworkResponse" -> "insert"
    [] op = "updateHomeworkResponse" -> "existing"
    [] op = "listHomeworkResponses" -> "select"
    [] op = "createHomeworkJob" -> "insert"

\* History kept for the slots that are not acting: which other slots wrote
\* since the slot's call began (others), and whether one of those slots has
\* since been released for a new call (dirty).
Observe(q, p, wrote, released) ==
  IF proc[q].pc = "idle" THEN proc[q]
  ELSE [proc[q] EXCEPT
          !.others = IF wrote THEN @ \cup {p} ELSE @,
          !.dirty = @ \/ (released /\ p \in proc[q].others)]

Step(p, rec, wrote) ==
  proc' = [q \in Procs |-> IF q = p THEN rec ELSE Observe(q, p, wrote, FALSE)]

Goto(p, pc) == [proc[p] EXCEPT !.pc = pc]
Return(p, code, out) == [proc[p] EXCEPT !.pc = "done", !.code = code, !.out = out]

\* A caller invokes action `op` with `input` under a context holding `user`.
\* Input validation precedes the handler; the handler starts with requireUser.
Call(p, op, user, input) ==
  /\ proc[p].pc = "idle"
  /\ LET auth == requireUser([user |-> user])
         fresh == [Idle EXCEPT !.op = op, !.user = user, !.input = input]
     IN  Step(p, IF ~Validate(op, input)
                   THEN [fresh EXCEPT !.pc = "done", !.code = "BAD_REQUEST"]
                 ELSE IF auth.code # "OK"
                   THEN [fresh EXCEPT !.pc = "done", !.code = auth.code]
                 ELSE [fresh EXCEPT !.pc = FirstStep(op, input)], FALSE)
  /\ UNCHANGED <<tables, now>>

\* The caller has received the result; the slot is free for the next call.
Release(p) ==
  /\ proc[p].pc = "done"
  /\ proc' = [q \in Procs |-> IF q = p THEN Idle ELSE Observe(q, p, FALSE, TRUE)]
  /\ UNCHANGED <<tables, now>>

At(p, op, pc) == proc[p].op = op /\ proc[p].pc = pc

\* await getOwnedRequest(...): one read of HomeworkRequests.
OwnedStep(p, op, requestId) ==
  /\ At(p, op, "owned")
  /\ LET owned == getOwnedRequest(requestId, proc[p].user)
     IN  Step(p, IF owned.code = "OK" THEN Goto(p, AfterOwned(op))
                 ELSE Return(p, owned.code, {}), FALSE)
  /\ UNCHANGED <<tables, now>>

\* ------------------------------------------------------------------ rows
newRequest(id, userId, input, t) ==
  [id |-> id, userId |-> userId,
   subject |-> input.subject, gradeLevel |-> input.gradeLevel,
   topic |-> input.topic, title |-> input.title,
   questionText |-> input.questionText, attachments |-> input.attachments,
   status |-> "open", createdAt |-> t, updatedAt |-> t]

\* A mutant of requestPatch: an omitted status is written as "open".
requestPatchReopening(row, input, t) ==
  [row EXCEPT !.subject = IF IsSome(input.subject) THEN input.subject ELSE @,
              !.gradeLevel = IF IsSome(input.gradeLevel) THEN input.gradeLevel ELSE @,
              !.topic = IF IsSome(input.topic) THEN input.topic ELSE @,
              !.title = IF IsSome(input.title) THEN input.title ELSE @,
              !.questionText = IF IsSome(input.questionText)
                                 THEN Val(input.questionText) ELSE @,
              !.attachments = IF IsSome(input.attachments)
                                THEN input.attachments ELSE @,
              !.status = IF IsSome(input.status) THEN Val(input.status) ELSE "open",
              !.updatedAt = t]

\* A mutant of requestPatch: omitted fields are written as NULL.
requestPatchNulling(row, input, t) ==
  [row EXCEPT !.subject = input.subject,
              !.gradeLevel = input.gradeLevel,
              !.topic = input.topic,
              !.title = input.title,
              !.questionText = IF IsSome(input.questionText)
                                 THEN Val(input.questionText) ELSE @,
              !.attachments = input.attachments,
              !.status = IF IsSome(input.status) THEN Val(input.status) ELSE @,
              !.updatedAt = t]

\* The .set({...}) of updateHomeworkRequest: supplied fields and updatedAt.
requestPatch(row, input, t) ==
  [row EXCEPT !.subject = IF IsSome(input.subject) THEN input.subject ELSE @,
              !.gradeLevel = IF IsSome(input.gradeLevel) THEN input.gradeLevel ELSE @,
              !.topic = IF IsSome(input.topic) THEN input.topic ELSE @,
              !.title = IF IsSome(input.title) THEN input.title ELSE @,
              !.questionText = IF IsSome(input.questionText)
                                 THEN Val(input.questionText) ELSE @,
              !.attachments = IF IsSome(input.attachments)
                                THEN input.attachments ELSE @,
              !.status = IF IsSome(input.status) THEN Val(input.status) ELSE @,
              !.updatedAt = t]

newResponse(id, userId, input, t) ==
  [id |-> id, requestId |-> input.requestId, userId |-> userId,
   source |-> IF IsSome(input.source) THEN Val(input.source) ELSE "ai",
   answerText |-> input.answerText, steps |-> input.steps,
   isAccepted |-> IF IsSome(input.isAccepted) THEN Val(input.isAccepted) ELSE FALSE,
   rating |-> input.rating, feedback |-> input.feedback, createdAt |-> t]

\* The .set({...}) of updateHomeworkResponse: supplied fields only.
responsePatch(row, input) ==
  [row EXCEPT !.isAccepted = IF IsSome(input.isAccepted)
                               THEN Val(input.isAccepted) ELSE @,
              !.rating = IF IsSome(input.rating) THEN input.rating ELSE @,
              !.feedback = IF IsSome(input.feedback) THEN input.feedback ELSE @]

newJob(id, userId, input, t) ==
  [id |-> id, requestId |-> input.requestId, userId |-> userId,
   jobType |-> IF IsSome(input.jobType) THEN Val(input.jobType) ELSE "full_solution",
   input |-> input.input, output |-> input.output,
   status |-> IF IsSome(input.status) THEN Val(input.status) ELSE "completed",
   createdAt |-> t]

\* UPDATE HomeworkRequests SET status, updatedAt WHERE id = requestId.
setRequestStatus(requestId, status, t) ==
  [i \in DOMAIN HomeworkRequests |->
     IF HomeworkRequests[i].id = requestId
       THEN [HomeworkRequests[i] EXCEPT !.status = status, !.updatedAt = t]
       ELSE HomeworkRequests[i]]

\* A mutant of addMarksAnswered: any supplied isAccepted, false included.
addMarksAnsweredIfSupplied(input) == IsSome(input.isAccepted)

\* A mutant of addMarksAnswered: the side effect is forgotten.
addNeverMarksAnswered(input) == FALSE

\* if (input.isAccepted): undefined and false are both falsy.
addMarksAnswered(input) == IsSome(input.isAccepted) /\ Val(input.isAccepted)

\* if (input.isAccepted !== undefined)
updateTouchesStatus(input) == IsSome(input.isAccepted)

\* A mutant of toggledStatus: "answered" while any response of the request
\* is still accepted.
toggledStatusAggregate(input) ==
  IF \/ Val(input.isAccepted)
     \/ \E r \in Rows(HomeworkResponses) :
          r.requestId = input.requestId /\ r.isAccepted
    THEN "answered" ELSE "open"

\* input.isAccepted ? "answered" : "open"
toggledStatus(input) == IF Val(input.isAccepted) THEN "answered" ELSE "open"

\* A mutant of existingResponse: the response is looked up by id alone.
existingResponseById(id, requestId) ==
  {r \in Rows(HomeworkResponses) : r.id = id}

\* SELECT of updateHomeworkResponse: the response by id AND requestId.
existingResponse(id, requestId) ==
  {r \in Rows(HomeworkResponses) : r.id = id /\ r.requestId = requestId}

\* ------------------------------------------------------------------ handlers
createHomeworkRequest(p) ==
  /\ At(p, "createHomeworkRequest", "insert")
  /\ LET row == newRequest(Len(HomeworkRequests) + 1, proc[p].user, proc[p].input, now)
     IN  /\ HomeworkRequests' = Append(HomeworkRequests, row)
         /\ Step(p, Return(p, "OK", {row}), TRUE)
  /\ UNCHANGED <<HomeworkResponses, HomeworkJobs, now>>

updateHomeworkRequest(p) ==
  \/ OwnedStep(p, "updateHomeworkRequest", proc[p].input.id)
  \/ /\ At(p, "updateHomeworkRequest", "update")
     /\ LET input == proc[p].input
            after == [i \in DOMAIN HomeworkRequests |->
                        IF HomeworkRequests[i].id = input.id
                          THEN requestPatch(HomeworkRequests[i], input, now)
                          ELSE HomeworkRequests[i]]
        IN  /\ HomeworkRequests' = after
            /\ Step(p, Return(p, "OK", {r \in Rows(after) : r.id = input.id}), TRUE)
     /\ UNCHANGED <<HomeworkResponses, HomeworkJobs, now>>

listHomeworkRequests(p) ==
  /\ At(p, "listHomeworkRequests", "select")
  /\ LET input == proc[p].input
         requests == {r \in Rows(HomeworkRequests) :
                        /\ r.userId = proc[p].user
                        /\ IsSome(input.status) => r.status = Val(input.status)}
     IN  Step(p, Return(p, "OK", requests), FALSE)
  /\ UNCHANGED <<tables, now>>

addHomeworkResponse(p) ==
  \/ OwnedStep(p, "addHomeworkResponse", proc[p].input.requestId)
  \/ /\ At(p, "addHomeworkResponse", "insert")
     /\ LET input == proc[p].input
            row == newResponse(Len(HomeworkResponses) + 1, proc[p].user, input, now)
        IN  /\ HomeworkResponses' = Append(HomeworkResponses, row)
            /\ Step(p, IF addMarksAnswered(input)
                         THEN [Goto(p, "status") EXCEPT !.out = {row}]
                         ELSE Return(p, "OK", {row}), TRUE)
     /\ UNCHANGED <<HomeworkRequests, HomeworkJobs, now>>
  \/ /\ At(p, "addHomeworkResponse", "status")
     /\ HomeworkRequests' = setRequestStatus(proc[p].input.requestId, "answered", now)
     /\ Step(p, Return(p, "OK", proc[p].out), TRUE)
     /\ UNCHANGED <<HomeworkResponses, HomeworkJobs, now>>

updateHomeworkResponse(p) ==
  \/ OwnedStep(p, "updateHomeworkResponse", proc[p].input.requestId)
  \/ /\ At(p, "updateHomeworkResponse", "existing")
     /\ LET existing == existingResponse(proc[p].input.id, proc[p].input.requestId)
        IN  Step(p, IF existing = {} THEN Return(p, "NOT_FOUND", {})
                                     ELSE Goto(p, "update"), FALSE)
     /\ UNCHANGED <<tables, now>>
  \/ /\ At(p, "updateHomeworkResponse", "update")
     /\ LET input == proc[p].input
            after == [i \in DOMAIN HomeworkResponses |->
                        IF HomeworkResponses[i].id = input.id
                          THEN responsePatch(HomeworkResponses[i], input)
                          ELSE HomeworkResponses[i]]
            response == {r \in Rows(after) : r.id = input.id}
        IN  /\ HomeworkResponses' = after
            /\ Step(p, IF updateTouchesStatus(input)
                         THEN [Goto(p, "status") EXCEPT !.out = response]
                         ELSE Return(p, "OK", response), TRUE)
     /\ UNCHANGED <<HomeworkRequests, HomeworkJobs, now>>
  \/ /\ At(p, "updateHomeworkResponse", "status")
     /\ HomeworkRequests' =
          setRequestStatus(proc[p].input.requestId, toggledStatus(proc[p].input), now)
     /\ Step(p, Return(p, "OK", proc[p].out), TRUE)
     /\ UNCHANGED <<HomeworkResponses, HomeworkJobs, now>>

listHomeworkResponses(p) ==
  \/ OwnedStep(p, "listHomeworkResponses", proc[p].input.requestId)
  \/ /\ At(p, "listHomeworkResponses", "select")
     /\ Step(p, Return(p, "OK", {r \in Rows(HomeworkResponses) :
                                   r.requestId = proc[p].input.requestId}), FALSE)
     /\ UNCHANGED <<tables, now>>

createHomeworkJob(p) ==
  \/ /\ At(p, "createHomeworkJob", "owned")
     /\ OwnedStep(p, "createHomeworkJob", Val(proc[p].input.requestId))
  \/ /\ At(p, "createHomeworkJob", "insert")
     /\ LET row == newJob(Len(HomeworkJobs) + 1, proc[p].user, proc[p].input, now)
        IN  /\ HomeworkJobs' = Append(HomeworkJobs, row)
            /\ Step(p, Return(p, "OK", {row}), TRUE)
     /\ UNCHANGED <<HomeworkRequests, HomeworkResponses, now>>

listHomeworkJobs(p) ==
  /\ At(p, "listHomeworkJobs", "select")
  /\ LET input == proc[p].input
         jobs == {j \in Rows(HomeworkJobs) :
                    /\ j.userId = proc[p].user
                    /\ IsSome(input.requestId) => j.requestId = input.requestId}
     IN  Step(p, Return(p, "OK", jobs), FALSE)
  /\ UNCHANGED <<tables, now>>

\* Wall-clock time moves on between database calls.
Tick ==
  /\ now < MaxClock
  /\ now' = now + 1
  /\ UNCHANGED <<tables, proc>>

\* ------------------------------------------------------------------ inputs
Opt(present, v) == IF present THEN Some(v) ELSE None
OptOf(S) == {None} \cup {Some(v) : v \in S}

CreateRequestInput(v) ==
  [subject |-> v, gradeLevel |-> v, topic |-> v, title |-> v,
   questionText |-> "q", attachments |-> v]

\* An updateHomeworkRequest input supplying the fields named in S, and status.
RequestPatch(id, S, status) ==
  [id |-> id,
   subject |-> Opt("subject" \in S, "b"),
   gradeLevel |-> Opt("gradeLevel" \in S, "b"),
   topic |-> Opt("topic" \in S, "b"),
   title |-> Opt("title" \in S, "b"),
   questionText |-> Opt("questionText" \in S, "b"),
   attachments |-> Opt("attachments" \in S, "b"),
   status |-> status]

TextFields == {"subject", "gradeLevel", "topic", "title", "questionText", "attachments"}

AddResponseInput(requestId, isAccepted, rating, feedback) ==
  [requestId |-> requestId, answerText |-> "x", steps |-> None,
   isAccepted |-> isAccepted, rating |-> rating, feedback |-> feedback,
   source |-> None]

UpdateResponseInput(id, requestId, isAccepted, rating, feedback) ==
  [id |-> id, requestId |-> requestId, isAccepted |-> isAccepted,
   rating |-> rating, feedback |-> feedback]

JobInput(requestId) ==
  [requestId |-> requestId, jobType |-> None, input |-> None,
   output |-> None, status |-> None]

\* Insert handlers in flight count against the table bounds.
Pending(op) == Cardinality({q \in Procs : InFlight(q) /\ proc[q].op = op})
Room(table, op, max) == Len(table) + Pending(op) < max

Handlers(p) ==
  \/ createHomeworkRequest(p)
  \/ updateHomeworkRequest(p)
  \/ listHomeworkRequests(p)
  \/ addHomeworkResponse(p)
  \/ updateHomeworkResponse(p)
  \/ listHomeworkResponses(p)
  \/ createHomeworkJob(p)
  \/ listHomeworkJobs(p)

Init ==
  /\ HomeworkRequests = <<>>
  /\ HomeworkResponses = <<>>
  /\ HomeworkJobs = <<>>
  /\ now = 0
  /\ proc = [p \in Procs |-> Idle]

\* ------------------------------------------------------------------ calls
\* The calls a client can make, over the slots P, the contexts U and the
\* input values given.
CallCreateRequest(P, U, V, max) ==
  \E p \in P, u \in U, v \in V :
    /\ Room(HomeworkRequests, "createHomeworkRequest", max)
    /\ Call(p, "createHomeworkRequest", u, CreateRequestInput(v))

CallUpdateRequest(P, U, ids, sets, statuses) ==
  \E p \in P, u \in U, id \in ids, S \in sets, status \in statuses :
    Call(p, "updateHomeworkRequest", u, RequestPatch(id, S, status))

CallListRequests(P, U, statuses) ==
  \E p \in P, u \in U, status \in statuses :
    Call(p, "listHomeworkRequests", u, [status |-> status])

CallAddResponse(P, U, ids, accs, ratings, feedbacks, max) ==
  \E p \in P, u \in U, r \in ids, acc \in accs, rating \in ratings, fb \in feedbacks :
    /\ Room(HomeworkResponses, "addHomeworkResponse", max)
    /\ Call(p, "addHomeworkResponse", u, AddResponseInput(r, acc, rating, fb))

CallUpdateResponse(P, U, rids, ids, accs, ratings, feedbacks) ==
  \E p \in P, u \in U, id \in rids, r \in ids, acc \in accs,
     rating \in ratings, fb \in feedbacks :
    Call(p, "updateHomeworkResponse", u, UpdateResponseInput(id, r, acc, rating, fb))

CallListResponses(P, U, ids) ==
  \E p \in P, u \in U, r \in ids :
    Call(p, "listHomeworkResponses", u, [requestId |-> r])

CallCreateJob(P, U, ids, max) ==
  \E p \in P, u \in U, r \in OptOf(ids) :
    /\ Room(HomeworkJobs, "createHomeworkJob", max)
    /\ Call(p, "createHomeworkJob", u, JobInput(r))

CallListJobs(P, U, ids) ==
  \E p \in P, u \in U, r \in OptOf(ids) :
    Call(p, "listHomeworkJobs", u, [requestId |-> r])

\* ---------------------------------------------------------------- Spec
\* Ownership and authentication: two users and anonymous callers, all eight
\* operations; handlers run one at a time, each to completion.
Next ==
  \/ CallCreateRequest({1}, Contexts, {None}, MaxRequests)
  \/ CallUpdateRequest({1}, Contexts, 1..MaxRequests, {{}}, {None, Some("answered")})
  \/ CallListRequests({1}, Contexts, {None})
  \/ CallAddResponse({1}, Contexts, 1..MaxRequests, {None, Some(TRUE)}, {None}, {None},
                     MaxResponses)
  \/ CallUpdateResponse({1}, Contexts, 1..MaxResponses, 1..MaxRequests,
                        {None, Some(FALSE)}, {None}, {None})
  \/ CallListResponses({1}, Contexts, 1..MaxRequests)
  \/ CallCreateJob({1}, Contexts, 1..MaxRequests, MaxJobs)
  \/ CallListJobs({1}, Contexts, 1..MaxRequests)
  \/ Handlers(1)
  \/ Release(1)

Spec == Init /\ [][Next]_vars

\* ---------------------------------------------------------------- SpecCross
\* Responses under several requests of two users; handlers one at a time.
NextCross ==
  \/ CallCreateRequest({1}, Users, {None}, MaxCrossRequests)
  \/ CallAddResponse({1}, Users, 1..MaxCrossRequests, {None, Some(TRUE)}, {None},
                     {None}, MaxCrossResponses)
  \/ CallUpdateResponse({1}, Users, 1..(MaxCrossResponses + 1), 1..MaxCrossRequests,
                        {Some(TRUE)}, {None}, {None})
  \/ CallListResponses({1}, Users, 1..MaxCrossRequests)
  \/ createHomeworkRequest(1)
  \/ addHomeworkResponse(1)
  \/ updateHomeworkResponse(1)
  \/ listHomeworkResponses(1)
  \/ Release(1)

SpecCross == Init /\ [][NextCross]_vars

\* ---------------------------------------------------------------- SpecStatus
\* The acceptance side effects: one user, several responses of a request,
\* every status and every acceptance value; handlers one at a time.
NextStatus ==
  \/ CallCreateRequest({1}, {"u1"}, {None}, MaxStatusRequests)
  \/ CallUpdateRequest({1}, {"u1"}, 1..MaxStatusRequests, {{}}, OptOf(RequestStatus))
  \/ CallAddResponse({1}, {"u1"}, 1..MaxStatusRequests, OptOf(BOOLEAN),
                     {None}, {None}, MaxStatusResponses)
  \/ CallUpdateResponse({1}, {"u1"}, 1..MaxStatusResponses, 1..MaxStatusRequests,
                        OptOf(BOOLEAN), {None}, {None})
  \/ createHomeworkRequest(1)
  \/ updateHomeworkRequest(1)
  \/ addHomeworkResponse(1)
  \/ updateHomeworkResponse(1)
  \/ Release(1)

SpecStatus == Init /\ [][NextStatus]_vars

\* ---------------------------------------------------------------- SpecFrame
\* Every operation of one user, with inputs that do and inputs that do not
\* carry a status or an acceptance; handlers one at a time.
NextFrame ==
  \/ CallCreateRequest({1}, {"u1"}, {Some("b")}, MaxFrameRequests)
  \/ CallUpdateRequest({1}, {"u1"}, 1..MaxFrameRequests, {{}, {"title"}},
                       OptOf(RequestStatus))
  \/ CallListRequests({1}, {"u1"}, {None, Some("open")})
  \/ CallAddResponse({1}, {"u1"}, 1..MaxFrameRequests, OptOf(BOOLEAN),
                     {Some(4)}, {Some("f")}, MaxFrameResponses)
  \/ CallUpdateResponse({1}, {"u1"}, 1..MaxFrameResponses, 1..MaxFrameRequests,
                        OptOf(BOOLEAN), {None, Some(4)}, {None, Some("f")})
  \/ CallListResponses({1}, {"u1"}, 1..MaxFrameRequests)
  \/ CallCreateJob({1}, {"u1"}, 1..MaxFrameRequests, MaxFrameJobs)
  \/ CallListJobs({1}, {"u1"}, 1..MaxFrameRequests)
  \/ Handlers(1)
  \/ Release(1)

SpecFrame == Init /\ [][NextFrame]_vars

\* ---------------------------------------------------------------- SpecFields
\* Partial updates: one user, every column of a request and of a response
\* is patched in some input and omitted in another; the clock moves.
PatchSets ==
  {{}, {"subject"}, {"gradeLevel", "topic"},
   {"title", "questionText", "attachments"}, TextFields}

NextFields ==
  \/ CallCreateRequest({1}, {"u1"}, {None, Some("a")}, MaxFieldRequests)
  \/ CallUpdateRequest({1}, {"u1"}, 1..MaxFieldRequests, PatchSets,
                       {None, Some("closed")})
  \/ CallAddResponse({1}, {"u1"}, 1..MaxFieldRequests, {None, Some(TRUE)},
                     {None, Some(4)}, {None, Some("f")}, MaxFieldResponses)
  \/ CallUpdateResponse({1}, {"u1"}, 1..MaxFieldResponses, 1..MaxFieldRequests,
                        OptOf(BOOLEAN), {None, Some(5)}, {None, Some("g")})
  \/ createHomeworkRequest(1)
  \/ updateHomeworkRequest(1)
  \/ addHomeworkResponse(1)
  \/ updateHomeworkResponse(1)
  \/ Release(1)
  \/ Tick

SpecFields == Init /\ [][NextFields]_vars

\* ---------------------------------------------------------------- SpecConc
\* Interleaving: one user, two handlers in flight at a time, each advancing
\* one database call per step.
NextConc ==
  \/ CallCreateRequest(Procs, {"u1"}, {None}, MaxConcRequests)
  \/ CallUpdateRequest(Procs, {"u1"}, 1..MaxConcRequests, {{}}, {Some("closed")})
  \/ CallListRequests(Procs, {"u1"}, {None})
  \/ CallAddResponse(Procs, {"u1"}, 1..MaxConcRequests, {None, Some(TRUE)},
                     {None}, {None}, MaxConcResponses)
  \/ CallUpdateResponse(Procs, {"u1"}, 1..MaxConcResponses, 1..MaxConcRequests,
                        {Some(TRUE), Some(FALSE)}, {None}, {None})
  \/ CallListResponses(Procs, {"u1"}, 1..MaxConcRequests)
  \/ \E p \in Procs : createHomeworkRequest(p)
  \/ \E p \in Procs : updateHomeworkRequest(p)
  \/ \E p \in Procs : listHomeworkRequests(p)
  \/ \E p \in Procs : addHomeworkResponse(p)
  \/ \E p \in Procs : updateHomeworkResponse(p)
  \/ \E p \in Procs : listHomeworkResponses(p)
  \/ \E p \in Procs : Release(p)

SpecConc == Init /\ [][NextConc]_vars

\* ================================================================ claims
\* The request a call is aimed at, if any.
TargetRequest(rec) ==
  CASE rec.op = "updateHomeworkRequest" -> Some(rec.input.id)
    [] rec.op \in {"addHomeworkResponse", "updateHomeworkResponse",
                   "listHomeworkResponses"} -> Some(rec.input.requestId)
    [] rec.op \in {"createHomeworkJob", "listHomeworkJobs"} -> rec.input.requestId
    [] OTHER -> None

\* rec is a schema-valid call by a signed-in user against a request that
\* exists in `requests` and belongs to somebody else.
Foreign(rec, requests) ==
  /\ rec.pc # "idle"
  /\ rec.user \in Users
  /\ Validate(rec.op, rec.input)
  /\ IsSome(TargetRequest(rec))
  /\ \E r \in Rows(requests) :
       r.id = Val(TargetRequest(rec)) /\ r.userId # rec.user

\* C1 (as stated): a call by B against a request of A changes no row and,
\* once returned, has failed with NotFound and returned nothing; this for
\* all six operations, listHomeworkJobs included.
C1_Original ==
  [][\A p \in Procs :
       Foreign(proc'[p], HomeworkRequests') =>
         /\ UNCHANGED tables
         /\ proc'[p].pc = "done" =>
              proc'[p].code = "NOT_FOUND" /\ proc'[p].out = {}]_vars

\* C1 (amended): a call by B against a request of A changes no row and
\* returns none of A's rows; it fails with NotFound for every operation
\* but listHomeworkJobs, which succeeds with an empty list.
C1_Isolation ==
  [][\A p \in Procs :
       Foreign(proc'[p], HomeworkRequests') =>
         /\ UNCHANGED tables
         /\ proc'[p].pc = "done" =>
              /\ proc'[p].out = {}
              /\ proc'[p].code =
                   IF proc'[p].op = "listHomeworkJobs" THEN "OK" ELSE "NOT_FOUND"]_vars

\* B has asked for the responses of A's request, which has one, and got NotFound.
C1_Witness ==
  \E p \in Procs :
    /\ Foreign(proc[p], HomeworkRequests)
    /\ proc[p].op = "listHomeworkResponses"
    /\ proc[p].pc = "done" /\ proc[p].code = "NOT_FOUND"
    /\ \E r \in Rows(HomeworkResponses) : r.requestId = proc[p].input.requestId

\* C6: a schema-valid call of any of the eight operations without a user
\* returns Unauthorized at once, whatever ids it names, and no table changes.
C6_UnauthorizedFirst ==
  [][\A p \in Procs :
       (/\ proc'[p].pc # "idle"
        /\ proc'[p].user = NoUser
        /\ Validate(proc'[p].op, proc'[p].input)) =>
         /\ proc'[p].pc = "done"
         /\ proc'[p].code = "UNAUTHORIZED"
         /\ proc'[p].out = {}
         /\ UNCHANGED tables]_vars

\* An anonymous updateHomeworkResponse naming a request and a response that
\* do not exist has returned Unauthorized, not NotFound.
C6_Witness ==
  \E p \in Procs :
    /\ proc[p].pc = "done" /\ proc[p].user = NoUser
    /\ proc[p].op = "updateHomeworkResponse"
    /\ IsSome(proc[p].input.isAccepted)
    /\ proc[p].input.requestId > Len(HomeworkRequests)
    /\ proc[p].input.id > Len(HomeworkResponses)
    /\ proc[p].code = "UNAUTHORIZED"

OwnsRequest(user, requestId) ==
  \E r \in Rows(HomeworkRequests) : r.id = requestId /\ r.userId = user

\* C7: every stored job with a parent request names an existing request of
\* the job's user; a returned createHomeworkJob has failed with NotFound when
\* its requestId is not the caller's, and otherwise has stored a job of the
\* caller with jobType full_solution and status completed.
C7_JobLinkage ==
  /\ \A j \in Rows(HomeworkJobs) :
       IsSome(j.requestId) => OwnsRequest(j.userId, Val(j.requestId))
  /\ \A p \in Procs :
       (/\ proc[p].pc = "done" /\ proc[p].op = "createHomeworkJob"
        /\ proc[p].user \in Users) =>
         IF /\ IsSome(proc[p].input.requestId)
            /\ ~OwnsRequest(proc[p].user, Val(proc[p].input.requestId))
           THEN proc[p].code = "NOT_FOUND" /\ proc[p].out = {}
           ELSE /\ proc[p].code = "OK"
                /\ \E j \in proc[p].out :
                     /\ proc[p].out = {j}
                     /\ j \in Rows(HomeworkJobs)
                     /\ j.userId = proc[p].user
                     /\ j.requestId = proc[p].input.requestId
                     /\ j.jobType = "full_solution"
                     /\ j.status = "completed"

\* A user has asked for a job on another user's request: NotFound, no job.
C7_Witness ==
  \E p \in Procs :
    /\ proc[p].pc = "done" /\ proc[p].op = "createHomeworkJob"
    /\ Foreign(proc[p], HomeworkRequests)
    /\ proc[p].code = "NOT_FOUND"
    /\ HomeworkJobs = <<>>

\* rec is an updateHomeworkResponse by the owner of the request it names,
\* with a response id that is not a response of that request.
Confused(rec, requests, responses) ==
  /\ rec.pc # "idle"
  /\ rec.op = "updateHomeworkResponse"
  /\ Validate(rec.op, rec.input)
  /\ \E r \in Rows(requests) : r.id = rec.input.requestId /\ r.userId = rec.user
  /\ \A r \in Rows(responses) :
       r.id = rec.input.id => r.requestId # rec.input.requestId

\* C8: updateHomeworkResponse by the owner of r with a response id that does
\* not exist or belongs to another request changes no row and returns NotFound.
C8_CrossRequest ==
  [][\A p \in Procs :
       Confused(proc'[p], HomeworkRequests', HomeworkResponses') =>
         /\ UNCHANGED tables
         /\ proc'[p].pc = "done" =>
              proc'[p].code = "NOT_FOUND" /\ proc'[p].out = {}]_vars

\* The owner of request r has named a response of another user's request.
C8_Witness ==
  \E p \in Procs :
    /\ Confused(proc[p], HomeworkRequests, HomeworkResponses)
    /\ proc[p].pc = "done" /\ proc[p].code = "NOT_FOUND"
    /\ \E r \in Rows(HomeworkResponses) :
         /\ r.id = proc[p].input.id
         /\ ~OwnsRequest(proc[p].user, r.requestId)

\* Slot p takes a step of its handler.
Acts(p) == proc'[p].pc # proc[p].pc

RequestById(requests, id) == {r \in Rows(requests) : r.id = id}

\* C2: a returned addHomeworkResponse of the owner with isAccepted = true
\* leaves the request "answered" and has stored its response as accepted;
\* with isAccepted false or omitted no step of the handler touches a request.
C2_Acceptance ==
  [][\A p \in Procs :
       (Acts(p) /\ proc'[p].op = "addHomeworkResponse" /\ proc'[p].pc # "idle") =>
         LET rec == proc'[p]
         IN  IF rec.input.isAccepted = Some(TRUE)
               THEN (rec.pc = "done" /\ rec.code = "OK") =>
                      /\ \A r \in RequestById(HomeworkRequests', rec.input.requestId) :
                           r.status = "answered"
                      /\ \E row \in Rows(HomeworkResponses') :
                           /\ rec.out = {row}
                           /\ row.requestId = rec.input.requestId
                           /\ row.isAccepted
               ELSE UNCHANGED HomeworkRequests]_vars

\* An accepted response has been added and its request is "answered".
C2_Witness ==
  \E p \in Procs :
    /\ proc[p].pc = "done" /\ proc[p].op = "addHomeworkResponse"
    /\ proc[p].code = "OK" /\ proc[p].input.isAccepted = Some(TRUE)
    /\ \E r \in RequestById(HomeworkRequests, proc[p].input.requestId) :
         r.status = "answered"
    /\ \E row \in proc[p].out : row \in Rows(HomeworkResponses) /\ row.isAccepted

\* C3: a returned updateHomeworkResponse of the owner that supplied
\* isAccepted leaves the request "open" for false and "answered" for true,
\* whatever the other responses of the request say.
C3_Unacceptance ==
  \A p \in Procs :
    (/\ proc[p].pc = "done" /\ proc[p].op = "updateHomeworkResponse"
     /\ proc[p].code = "OK" /\ IsSome(proc[p].input.isAccepted)) =>
      /\ RequestById(HomeworkRequests, proc[p].input.requestId) # {}
      /\ \A r \in RequestById(HomeworkRequests, proc[p].input.requestId) :
           r.status = IF Val(proc[p].input.isAccepted) THEN "answered" ELSE "open"

\* One response has been un-accepted, the request is "open", and another
\* response of the same request is still accepted.
C3_Witness ==
  \E p \in Procs :
    /\ proc[p].pc = "done" /\ proc[p].op = "updateHomeworkResponse"
    /\ proc[p].code = "OK" /\ proc[p].input.isAccepted = Some(FALSE)
    /\ \E r \in RequestById(HomeworkRequests, proc[p].input.requestId) :
         r.status = "open"
    /\ \E row \in Rows(HomeworkResponses) :
         /\ row.requestId = proc[p].input.requestId
         /\ row.id # proc[p].input.id
         /\ row.isAccepted

\* Slot p writes the status of request id in this step, in one of the
\* three ways a status may be written.
StatusWriter(p, id) ==
  /\ Acts(p)
  /\ \/ /\ At(p, "updateHomeworkRequest", "update")
        /\ IsSome(proc[p].input.status) /\ proc[p].input.id = id
     \/ /\ At(p, "addHomeworkResponse", "status")
        /\ proc[p].input.isAccepted = Some(TRUE) /\ proc[p].input.requestId = id
     \/ /\ At(p, "updateHomeworkResponse", "status")
        /\ IsSome(proc[p].input.isAccepted) /\ proc[p].input.requestId = id

\* C5: a request's status is always open, answered or closed, and changes
\* only in a step of updateHomeworkRequest with status supplied, of
\* addHomeworkResponse with isAccepted = true, or of updateHomeworkResponse
\* with isAccepted supplied.
C5_StatusFrame ==
  [][/\ \A r \in Rows(HomeworkRequests') : r.status \in RequestStatus
     /\ \A i \in DOMAIN HomeworkRequests :
          /\ i \in DOMAIN HomeworkRequests'
          /\ HomeworkRequests'[i].status # HomeworkRequests[i].status =>
               \E p \in Procs : StatusWriter(p, HomeworkRequests[i].id)]_vars

\* A rating-only updateHomeworkResponse has returned on a closed request.
C5_Witness ==
  \E p \in Procs :
    /\ proc[p].pc = "done" /\ proc[p].op = "updateHomeworkResponse"
    /\ proc[p].code = "OK"
    /\ proc[p].input.isAccepted = None /\ IsSome(proc[p].input.rating)
    /\ \E r \in RequestById(HomeworkRequests, proc[p].input.requestId) :
         r.status = "closed"

RequestColumns ==
  {"id", "userId", "subject", "gradeLevel", "topic", "title", "questionText",
   "attachments", "status", "createdAt", "updatedAt"}
RequestNullable == {"subject", "gradeLevel", "topic", "title", "attachments"}
ResponseColumns ==
  {"id", "requestId", "userId", "source", "answerText", "steps", "isAccepted",
   "rating", "feedback", "createdAt"}

\* The value column f of a request holds after an update with `input` at time t.
RequestColumnAfter(old, input, f, t) ==
  IF f \in RequestNullable /\ IsSome(input[f]) THEN input[f]
  ELSE IF f \in {"questionText", "status"} /\ IsSome(input[f]) THEN Val(input[f])
  ELSE IF f = "updatedAt" THEN t
  ELSE old[f]

ResponseColumnAfter(old, input, f) ==
  IF f = "isAccepted" /\ IsSome(input[f]) THEN Val(input[f])
  ELSE IF f \in {"rating", "feedback"} /\ IsSome(input[f]) THEN input[f]
  ELSE old[f]

C9_TwoSteps ==
  [][\A p \in Procs :
       (/\ Acts(p)
        /\ \/ At(p, "addHomeworkResponse", "insert")
              /\ proc[p].input.isAccepted = Some(TRUE)
           \/ At(p, "updateHomeworkResponse", "update")
              /\ IsSome(proc[p].input.isAccepted)) =>
         /\ \E row \in proc'[p].out :
              /\ row \in Rows(HomeworkResponses')
              /\ row.isAccepted = Val(proc[p].input.isAccepted)
         /\ UNCHANGED HomeworkRequests
         /\ proc'[p].pc = "status"]_vars

\* A handler has stored its accepted response and not yet written the
\* status: the request is still "open", and a concurrent listHomeworkResponses
\* has returned the accepted response.
C9_Witness ==
  \E p \in Procs, q \in Procs :
    /\ At(p, "addHomeworkResponse", "status")
    /\ \E row \in proc[p].out :
         /\ row \in Rows(HomeworkResponses) /\ row.isAccepted
         /\ \E r \in RequestById(HomeworkRequests, row.requestId) : r.status = "open"
         /\ proc[q].pc = "done" /\ proc[q].op = "listHomeworkResponses"
         /\ row \in proc[q].out

\* Slot p has returned from an updateHomeworkResponse that supplied isAccepted.
Toggled(p) ==
  /\ proc[p].pc = "done" /\ proc[p].op = "updateHomeworkResponse"
  /\ proc[p].code = "OK" /\ IsSome(proc[p].input.isAccepted)

\* Since the calls in slots p and q began, no other call has written.
OnlyThese(p, q) ==
  /\ ~proc[p].dirty /\ ~proc[q].dirty
  /\ proc[p].others \subseteq {q} /\ proc[q].others \subseteq {p}

\* C10: once two updateHomeworkResponse calls that both supplied isAccepted
\* for the same response have returned, with no other write in between, the
\* request is "answered" exactly if the response is stored as accepted.
C10_ToggleAgreement ==
  \A p \in Procs, q \in Procs :
    (/\ p # q /\ Toggled(p) /\ Toggled(q)
     /\ proc[p].input.id = proc[q].input.id
     /\ proc[p].input.requestId = proc[q].input.requestId
     /\ OnlyThese(p, q)) =>
      \A r \in RequestById(HomeworkRequests, proc[p].input.requestId),
         row \in Rows(HomeworkResponses) :
        row.id = proc[p].input.id => (r.status = "answered" <=> row.isAccepted)

====
